---------------------------- MODULE Spec2Model ----------------------------
(***************************************************************************)
(* The VoteKit election engine as a state machine: the round-by-round STV  *)
(* count (threshold check, surplus transfer, elimination, filling of the   *)
(* last seats), its quotas, transfer rules and tie-break rules.            *)
(*                                                                         *)
(* The repository's sources at hand are its documentation of the election  *)
(* rules (src/unnamed/part_000, "Elections") and its tutorial notebook     *)
(* (src/unnamed/part_001).  What these describe is modelled from them; the *)
(* bookkeeping the documentation is silent about (exhausted weight, error  *)
(* kinds, the short flag, the seeded generator) is modelled from the       *)
(* design specification of the engine.                                     *)
(***************************************************************************)
EXTENDS Integers, Sequences, FiniteSets, TLC

VARIABLES
    candidates,   \* the declared candidates, in their declared order
    cfg,          \* the election's configuration (m, quota, transfer, ...)
    input,        \* the profile the election was constructed on
    runs,         \* run id -> the state of that election run
    ambient,      \* the process-wide random state, outside any election
    quotaCall,    \* the last call of the quota calculator and its result
    opCall        \* the last operation on a ballot or a profile and its result

vars == <<candidates, cfg, input, runs, ambient, quotaCall, opCall>>

-----------------------------------------------------------------------------
(* Bounds of the model. *)

MaxBallots == 2

MaxWeight == 2

MaxSeats == 2

NumSeeds == 2

\* The largest number of votes and of seats the quota calculator is called on.
MaxVotes == 100

\* The largest number of ballots of a profile two elections are run on.
PairBallots == 1

MaxQuotaSeats == 3

\* The most votes of a profile that is counted under the random transfer,
\* which draws from the votes one by one.
MaxPool == 12

\* The number of elections run concurrently on one profile.
NumRuns == 2

\* The most ballots of a profile the profile operations are called on.
MaxProfile == 3

\* The highest entry of a score vector.
MaxScore == 3

\* How far below zero the votes and the seats of a quota call go.
MaxDeficit == 1

\* The most ballots of a profile that is counted in every order.
MaxPermuted == 4

-----------------------------------------------------------------------------
(* Exact rational numbers <<numerator, denominator>>, denominator > 0, in  *)
(* lowest terms: the Fraction type ballot weights are stored as.           *)

Abs(x) == IF x < 0 THEN -x ELSE x

RECURSIVE GCD(_, _)
GCD(a, b) == IF b = 0 THEN a ELSE GCD(b, a % b)

Frac(n, d) ==
    LET g == GCD(Abs(n), d)
    IN  <<n \div g, d \div g>>

Zero == <<0, 1>>

One == <<1, 1>>

RInt(n) == <<n, 1>>

RAdd(x, y) == Frac(x[1] * y[2] + y[1] * x[2], x[2] * y[2])

RSub(x, y) == Frac(x[1] * y[2] - y[1] * x[2], x[2] * y[2])

RMul(x, y) == Frac(x[1] * y[1], x[2] * y[2])

\* x / y for y > 0
RDiv(x, y) == Frac(x[1] * y[2], x[2] * y[1])

RLe(x, y) == x[1] * y[2] <= y[1] * x[2]

RLt(x, y) == x[1] * y[2] < y[1] * x[2]

IsWhole(x) == x[2] = 1

\* Python's round(): to the nearest integer, a half to the even neighbour.
PyRound(x) ==
    LET f == x[1] \div x[2]
        r2 == 2 * (x[1] - f * x[2])
    IN  IF r2 < x[2] THEN f
        ELSE IF r2 > x[2] THEN f + 1
        ELSE IF f % 2 = 0 THEN f ELSE f + 1

-----------------------------------------------------------------------------
(* Ballots and profiles. *)

\* A ballot: a ranking (a sequence of sets of candidates, one set per
\* position) and a weight.
Ballot(ranking, weight) == [ranking |-> ranking, weight |-> weight]

RECURSIVE SumWeights(_)
SumWeights(ballots) ==
    IF ballots = <<>> THEN Zero
    ELSE RAdd(Head(ballots).weight, SumWeights(Tail(ballots)))

total_ballot_wt(profile) == SumWeights(profile)

\* The positions of a ranking, cut down to the candidates of `among`, the
\* emptied positions dropped.
RECURSIVE Restrict(_, _)
Restrict(ranking, among) ==
    IF ranking = <<>> THEN <<>>
    ELSE LET here == Head(ranking) \cap among
             rest == Restrict(Tail(ranking), among)
         IN  IF here = {} THEN rest ELSE <<here>> \o rest

\* The candidates a ballot is credited to: its highest-ranked position
\* among the candidates of `among` ({} when it ranks none of them).
TopOf(ballot, among) ==
    LET r == Restrict(ballot.ranking, among)
    IN  IF r = <<>> THEN {} ELSE r[1]

CreditedTo(ballot, c, among) == TopOf(ballot, among) = {c}

\* Mutant: the tally is overwritten by each ballot credited to c.
TallyLast(c, ballots, among) ==
    LET mine == {i \in 1..Len(ballots) : CreditedTo(ballots[i], c, among)}
    IN  IF mine = {} THEN Zero
        ELSE ballots[CHOOSE i \in mine : \A j \in mine : j <= i].weight

\* The tally of candidate c: the weight of the ballots credited to c.
RECURSIVE Tally(_, _, _)
Tally(c, ballots, among) ==
    IF ballots = <<>> THEN Zero
    ELSE IF CreditedTo(Head(ballots), c, among)
         THEN RAdd(Head(ballots).weight, Tally(c, Tail(ballots), among))
         ELSE Tally(c, Tail(ballots), among)

Tallies(ballots, among) == [c \in among |-> Tally(c, ballots, among)]

\* No operation called yet.
NoOp == [op |-> ""]

-----------------------------------------------------------------------------
(* Operations on ballots and profiles.  Each returns a new value.          *)

\* The ballots of another ranking than the given one.
RECURSIVE Without(_, _)
Without(ballots, ranking) ==
    IF ballots = <<>> THEN <<>>
    ELSE IF Head(ballots).ranking = ranking
         THEN Without(Tail(ballots), ranking)
         ELSE <<Head(ballots)>> \o Without(Tail(ballots), ranking)

\* The weight of the ballots of the given ranking.
RECURSIVE WeightOfRanking(_, _)
WeightOfRanking(ballots, ranking) ==
    IF ballots = <<>> THEN Zero
    ELSE IF Head(ballots).ranking = ranking
         THEN RAdd(Head(ballots).weight, WeightOfRanking(Tail(ballots), ranking))
         ELSE WeightOfRanking(Tail(ballots), ranking)

\* Mutant: every ballot is given the weight of the ballots like it, and
\* all of them are kept.
condense_ballots_keeping(ballots) ==
    [i \in 1..Len(ballots) |->
        Ballot(ballots[i].ranking, WeightOfRanking(ballots, ballots[i].ranking))]

\* The condensed profile: like ballots combined into one, of their summed
\* weight, in the order of their first occurrence.
RECURSIVE condense_ballots(_)
condense_ballots(ballots) ==
    IF ballots = <<>> THEN <<>>
    ELSE <<Ballot(Head(ballots).ranking, WeightOfRanking(ballots, Head(ballots).ranking))>>
         \o condense_ballots(Without(Tail(ballots), Head(ballots).ranking))

\* The first n ballots of a profile, in the order inputted.
head(ballots, n) == SubSeq(ballots, 1, IF n < Len(ballots) THEN n ELSE Len(ballots))

\* The ballots with their weights divided by the total weight.
standardize(ballots) ==
    [i \in 1..Len(ballots) |->
        Ballot(ballots[i].ranking, RDiv(ballots[i].weight, total_ballot_wt(ballots)))]

\* Mutant: the field of the ballot is overwritten.
assign_field_written(ballot, field, value) ==
    [error |-> "", ballot |-> [ballot EXCEPT ![field] = value]]

\* An assignment to a field of a ballot: a ballot is frozen, the assignment
\* raises FrozenInstanceError and the ballot is as it was.
assign_field(ballot, field, value) ==
    [error |-> "FrozenInstanceError", ballot |-> ballot]

\* Mutant: the names of the candidates are not compared.
DistinctUnchecked(cands) == TRUE

\* Whether the names of the candidates are distinct.
Distinct(cands) == \A i, j \in 1..Len(cands) : i # j => cands[i] # cands[j]

\* Whether no ballot has a weight below zero.
NonNegative(ballots) == \A i \in 1..Len(ballots) : RLe(Zero, ballots[i].weight)

\* What a failed construction leaves: no profile.
NoProfile == [candidates |-> <<>>, ballots |-> <<>>]

\* The construction of a profile from a list of ballots and a list of
\* candidates: the candidate names must be distinct and the weights not
\* negative, else the construction raises an error.
PreferenceProfile(ballots, cands) ==
    IF ~Distinct(cands) \/ ~NonNegative(ballots)
    THEN [error |-> "InvalidProfile", profile |-> NoProfile]
    ELSE [error |-> "", profile |-> [candidates |-> cands, ballots |-> ballots]]

-----------------------------------------------------------------------------
(* Borda scores from a score vector (r_1, ..., r_n), n the number of       *)
(* candidates.                                                             *)

RECURSIVE CountListed(_)
CountListed(ranking) ==
    IF ranking = <<>> THEN 0
    ELSE Cardinality(Head(ranking)) + CountListed(Tail(ranking))

RECURSIVE SumEntries(_, _, _)
SumEntries(vector, from, to) ==
    IF from > to THEN 0 ELSE vector[from] + SumEntries(vector, from + 1, to)

\* Mutant: every candidate of a tied position gets the position's top score.
TopEntry(vector, from, to) ==
    IF from > to THEN Zero ELSE RInt(vector[from])

\* The average of the entries from..to of the score vector: what each of
\* the candidates tied over these positions is awarded, over all the
\* completions of the tie.
AverageEntry(vector, from, to) ==
    IF from > to THEN Zero ELSE Frac(SumEntries(vector, from, to), to - from + 1)

\* The points a ballot's ranking gives to each candidate: a listed candidate
\* the average over the positions its tied position occupies, the unlisted
\* candidates evenly the points of the positions left.
score_dict_from_score_vector(ranking, cands, vector) ==
    LET listed == CountListed(ranking)
        block(c) == CHOOSE j \in 1..Len(ranking) : c \in ranking[j]
        before(c) == CountListed(SubSeq(ranking, 1, block(c) - 1))
    IN  [c \in cands |->
            IF \E j \in 1..Len(ranking) : c \in ranking[j]
            THEN AverageEntry(vector, before(c) + 1,
                              before(c) + Cardinality(ranking[block(c)]))
            ELSE AverageEntry(vector, listed + 1, Len(vector))]

\* The conventional score vector (n, n - 1, ..., 1).
ConventionalVector(n) == [i \in 1..n |-> n + 1 - i]

RECURSIVE BordaPoints(_, _, _, _)
BordaPoints(c, ballots, cands, vector) ==
    IF ballots = <<>> THEN Zero
    ELSE RAdd(RMul(Head(ballots).weight,
                   score_dict_from_score_vector(Head(ballots).ranking, cands, vector)[c]),
              BordaPoints(c, Tail(ballots), cands, vector))

\* The Borda scores of the candidates in a profile.
borda_scores(ballots, cands, vector) ==
    [c \in cands |-> BordaPoints(c, ballots, cands, vector)]

-----------------------------------------------------------------------------
(* Quotas. *)

\* Mutant: the quota cut down to a whole number.
DroopFloored(N, m) ==
    LET q == RAdd(RDiv(N, RInt(m + 1)), One)
    IN  RInt(q[1] \div q[2])

\* The Droop quota for N votes and m seats.
Droop(N, m) == RAdd(RDiv(N, RInt(m + 1)), One)

\* Mutant: the quota without the added vote.
HareWithoutOne(N, m) == RDiv(N, RInt(m))

\* The Hare quota for N votes and m seats.
Hare(N, m) == RAdd(RDiv(N, RInt(m)), One)

\* Mutant: the threshold is the votes over the seats and one, no vote added.
get_threshold_exact(quota, N, m) == RDiv(N, RInt(m + 1))

get_threshold(quota, N, m) ==
    IF quota = "droop" THEN Droop(N, m) ELSE Hare(N, m)

\* What a failed quota call returns: no quota.
NoQuota == <<0, 0>>

\* Mutant: only the number of seats is validated.
compute_quota_seats_checked(quota, N, m) ==
    IF m <= 0
    THEN [error |-> "InvalidQuotaInput", result |-> NoQuota]
    ELSE [error |-> "", result |-> get_threshold(quota, N, m)]

\* A call of the quota calculator: the inputs are validated, then the quota
\* is computed.
compute_quota(quota, N, m) ==
    IF m <= 0 \/ RLt(N, Zero)
    THEN [error |-> "InvalidQuotaInput", result |-> NoQuota]
    ELSE [error |-> "", result |-> get_threshold(quota, N, m)]

NoCall ==
    [votes |-> Zero, seats |-> 0, quota |-> "", error |-> "", result |-> NoQuota]

-----------------------------------------------------------------------------
(* The seeded generator an election draws from. *)

\* A draw in 0..n-1 from the generator in state rng.
Draw(rng, n) == rng % n

NextRng(rng) == rng + 1

-----------------------------------------------------------------------------
(* Transfer rules.  transfer(source, credited, surplus, after, rng): the   *)
(* ballots credited to `source` are passed on to the candidates of `after` *)
(* (those that stay in the count).  The result names the ballots passed on *)
(* (moved), the weight that left the count because its ballot ranks no     *)
(* candidate of `after` (exhausted), the weight that stays with the source *)
(* candidate (stay), the generator's new state and an error if any.        *)

Creditable(ballot, after) == TopOf(ballot, after) # {}

RECURSIVE SelectCreditable(_, _)
SelectCreditable(ballots, after) ==
    IF ballots = <<>> THEN <<>>
    ELSE IF Creditable(Head(ballots), after)
         THEN <<Head(ballots)>> \o SelectCreditable(Tail(ballots), after)
         ELSE SelectCreditable(Tail(ballots), after)

\* Mutant: the ballots without a next ranking are not collected.
SelectExhaustedNone(ballots, after) == <<>>

RECURSIVE SelectExhausted(_, _)
SelectExhausted(ballots, after) ==
    IF ballots = <<>> THEN <<>>
    ELSE IF Creditable(Head(ballots), after)
         THEN SelectExhausted(Tail(ballots), after)
         ELSE <<Head(ballots)>> \o SelectExhausted(Tail(ballots), after)

\* Mutant: the ballots are passed on at the weight they had.
ReweightNot(ballots, factor) == ballots

\* The ballots, each at its weight times the factor.
RECURSIVE Reweight(_, _)
Reweight(ballots, factor) ==
    IF ballots = <<>> THEN <<>>
    ELSE <<Ballot(Head(ballots).ranking, RMul(Head(ballots).weight, factor))>>
         \o Reweight(Tail(ballots), factor)

TransferResult(moved, exhausted, stay, rng, error) ==
    [moved |-> moved, exhausted |-> exhausted, stay |-> stay,
     rng |-> rng, error |-> error]

\* Mutant: the ballots without a next ranking are dropped unrecorded.
fractional_transfer_unrecorded(source, credited, surplus, after, rng) ==
    LET votes == SumWeights(credited)
        transfer_value == IF votes = Zero THEN Zero ELSE RDiv(surplus, votes)
    IN  TransferResult(SelectCreditable(Reweight(credited, transfer_value), after),
                       Zero, RSub(votes, surplus), rng, "")

\* Fractional transfer: every ballot of the source is reweighted by the
\* share of the source's votes that is passed on (surplus / votes); those
\* with a next ranking go on, the others leave the count at that weight.
fractional_transfer(source, credited, surplus, after, rng) ==
    LET votes == SumWeights(credited)
        transfer_value == IF votes = Zero THEN Zero ELSE RDiv(surplus, votes)
        scaled == Reweight(credited, transfer_value)
    IN  TransferResult(SelectCreditable(scaled, after),
                       SumWeights(SelectExhausted(scaled, after)),
                       RSub(votes, surplus), rng, "")

\* Mutant: a ballot is drawn and passed on at the weight it has.
CopiesWhole(ranking, n) == <<Ballot(ranking, RInt(n))>>

\* A ballot of whole weight w as w ballots of weight 1.
RECURSIVE Copies(_, _)
Copies(ranking, n) ==
    IF n <= 0 THEN <<>> ELSE <<Ballot(ranking, One)>> \o Copies(ranking, n - 1)

RECURSIVE Expand(_)
Expand(ballots) ==
    IF ballots = <<>> THEN <<>>
    ELSE Copies(Head(ballots).ranking, Head(ballots).weight[1])
         \o Expand(Tail(ballots))

RemoveAt(s, i) == SubSeq(s, 1, i - 1) \o SubSeq(s, i + 1, Len(s))

\* k ballots drawn one after the other, without replacement.
RECURSIVE Sample(_, _, _)
Sample(ballots, k, rng) ==
    IF k <= 0 \/ ballots = <<>> THEN [picked |-> <<>>, left |-> ballots, rng |-> rng]
    ELSE LET i == Draw(rng, Len(ballots)) + 1
             rest == Sample(RemoveAt(ballots, i), k - 1, NextRng(rng))
         IN  [picked |-> <<ballots[i]>> \o rest.picked,
              left |-> rest.left, rng |-> rest.rng]

\* Mutant: the weights are not looked at.
AllWholeUnchecked(ballots) == TRUE

\* Whether every ballot has an integer weight.
AllWhole(ballots) == \A i \in 1..Len(ballots) : IsWhole(ballots[i].weight)

\* Random transfer: round(surplus) of the source's ballots that have a next
\* ranking are drawn and go on whole; the others stay with the source.
random_transfer(source, credited, surplus, after, rng) ==
    IF ~AllWhole(credited)
    THEN TransferResult(<<>>, Zero, Zero, rng, "NonIntegerWeightError")
    ELSE LET pool == Expand(SelectCreditable(credited, after))
             drawn == Sample(pool, PyRound(surplus), rng)
         IN  TransferResult(drawn.picked,
                            SumWeights(SelectExhausted(credited, after)),
                            SumWeights(drawn.left), drawn.rng, "")

\* Mutant: the ballots with a next ranking are passed on as they are.
no_transfer_passing(source, credited, surplus, after, rng) ==
    TransferResult(SelectCreditable(credited, after),
                   SumWeights(SelectExhausted(credited, after)), Zero, rng, "")

\* No transfer: all the weight credited to the source leaves the count.
no_transfer(source, credited, surplus, after, rng) ==
    TransferResult(<<>>, SumWeights(credited), Zero, rng, "")

transfer(rule, source, credited, surplus, after, rng) ==
    CASE rule = "fractional" -> fractional_transfer(source, credited, surplus, after, rng)
      [] rule = "random" -> random_transfer(source, credited, surplus, after, rng)
      [] OTHER -> no_transfer(source, credited, surplus, after, rng)

-----------------------------------------------------------------------------
(* Candidates and orders. *)

CandSet == {candidates[i] : i \in 1..Len(candidates)}

Position(c) == CHOOSE i \in 1..Len(candidates) : candidates[i] = c

\* The candidates of `among` with the highest (lowest) score.
Highest(among, score) ==
    {c \in among : \A d \in among : RLe(score[d], score[c])}

Lowest(among, score) ==
    {c \in among : \A d \in among : RLe(score[c], score[d])}

\* The first of a set of candidates in the declared order.
FirstDeclared(among) ==
    CHOOSE c \in among : \A d \in among : Position(c) <= Position(d)

\* A set of candidates as a sequence, by falling score; candidates of equal
\* score in the declared order.
RECURSIVE ByScore(_, _)
ByScore(among, score) ==
    IF among = {} THEN <<>>
    ELSE LET c == FirstDeclared(Highest(among, score))
         IN  <<c>> \o ByScore(among \ {c}, score)

RECURSIVE InDeclaredOrder(_)
InDeclaredOrder(among) ==
    IF among = {} THEN <<>>
    ELSE LET c == FirstDeclared(among)
         IN  <<c>> \o InDeclaredOrder(among \ {c})

RECURSIVE SelectCredited(_, _, _)
SelectCredited(ballots, to, among) ==
    IF ballots = <<>> THEN <<>>
    ELSE IF TopOf(Head(ballots), among) # {} /\ TopOf(Head(ballots), among) \subseteq to
         THEN <<Head(ballots)>> \o SelectCredited(Tail(ballots), to, among)
         ELSE SelectCredited(Tail(ballots), to, among)

RECURSIVE SelectOthers(_, _, _)
SelectOthers(ballots, to, among) ==
    IF ballots = <<>> THEN <<>>
    ELSE IF TopOf(Head(ballots), among) # {} /\ TopOf(Head(ballots), among) \subseteq to
         THEN SelectOthers(Tail(ballots), to, among)
         ELSE <<Head(ballots)>> \o SelectOthers(Tail(ballots), to, among)

-----------------------------------------------------------------------------
(* Tie-break rules.  break_tie(rule, tied, profile, rng, worst): one of the *)
(* tied candidates, the worst of them for an elimination and the best for  *)
(* an election, or the error that no rule resolves the tie.                *)

TieResult(choice, rng, error) == [choice |-> choice, rng |-> rng, error |-> error]

NoCandidate == "-"

\* Mutant: the tie goes to the first of the tied candidates.
tiebreak_first_listed(tied, profile, rng, worst) ==
    TieResult(FirstDeclared(tied), rng, "")

tiebreak_none(tied, profile, rng, worst) ==
    TieResult(NoCandidate, rng, "TiebreakRequiredError")

\* Mutant: the draw is taken from the process-wide random state.
tiebreak_random_ambient(tied, profile, rng, worst) ==
    TieResult(InDeclaredOrder(tied)[Draw(ambient, Cardinality(tied)) + 1], rng, "")

tiebreak_random(tied, profile, rng, worst) ==
    TieResult(InDeclaredOrder(tied)[Draw(rng, Cardinality(tied)) + 1],
              NextRng(rng), "")

\* By the first-place votes of the profile, among the tied candidates only.
tiebreak_first_place(tied, profile, rng, worst) ==
    LET fpv == Tallies(profile, CandSet)
        pick == IF worst THEN Lowest(tied, fpv) ELSE Highest(tied, fpv)
    IN  IF Cardinality(pick) = 1
        THEN TieResult(CHOOSE c \in pick : TRUE, rng, "")
        ELSE TieResult(NoCandidate, rng, "TiebreakRequiredError")

\* By the Borda scores of the profile, among the tied candidates only.
tiebreak_borda(tied, profile, rng, worst) ==
    LET borda == borda_scores(profile, CandSet, ConventionalVector(Len(candidates)))
        pick == IF worst THEN Lowest(tied, borda) ELSE Highest(tied, borda)
    IN  IF Cardinality(pick) = 1
        THEN TieResult(CHOOSE c \in pick : TRUE, rng, "")
        ELSE TieResult(NoCandidate, rng, "TiebreakRequiredError")

break_tie(rule, tied, profile, rng, worst) ==
    CASE rule = "random" -> tiebreak_random(tied, profile, rng, worst)
      [] rule = "first_place" -> tiebreak_first_place(tied, profile, rng, worst)
      [] rule = "borda" -> tiebreak_borda(tied, profile, rng, worst)
      [] OTHER -> tiebreak_none(tied, profile, rng, worst)

-----------------------------------------------------------------------------
(* The state of an election run and its rounds. *)

\* A new election: nothing counted yet, the threshold set from the votes
\* of the profile, the first-place votes tallied.
NewRun(seed) ==
    [round |-> 0,
     remaining |-> CandSet,
     elected |-> <<>>,
     eliminated |-> <<>>,
     profile |-> input,
     threshold |-> get_threshold(cfg.quota, total_ballot_wt(input), cfg.m),
     tallies |-> Tallies(input, CandSet),
     exhausted |-> Zero,
     held |-> [c \in CandSet |-> Zero],
     status |-> "InProgress",
     short |-> FALSE,
     error |-> "",
     tied |-> {},
     seed |-> seed,
     rng |-> seed,
     trace |-> <<>>]

\* Mutant: the failing round is counted as a round of the election.
FailedCounted(run, error, tied) ==
    [run EXCEPT !.status = "Error", !.error = error, !.tied = tied,
                !.round = run.round + 1]

\* A round that fails: the run stops with the error, the round not recorded.
Failed(run, error, tied) ==
    [run EXCEPT !.status = "Error", !.error = error, !.tied = tied]

RECURSIVE WithRound(_, _)
WithRound(cands, round) ==
    IF cands = <<>> THEN <<>>
    ELSE <<[candidate |-> Head(cands), round |-> round]>> \o WithRound(Tail(cands), round)

SeqToSet(s) == {s[i] : i \in 1..Len(s)}

\* The record of a completed round, kept in the run's audit trail.
RoundRecord(run, kind, tallies, winners, losers) ==
    [round |-> run.round,
     kind |-> kind,
     tallies |-> tallies,
     before |-> DOMAIN tallies,
     winners |-> winners,
     losers |-> losers,
     remaining |-> run.remaining,
     elected |-> run.elected,
     eliminated |-> run.eliminated,
     profile |-> run.profile,
     exhausted |-> run.exhausted,
     held |-> run.held]

\* The end of a round: the votes of the candidates left are tallied again
\* and the round is recorded.
Completed(run, kind, tallies, winners, losers) ==
    [run EXCEPT !.tallies = Tallies(run.profile, run.remaining),
                !.trace = Append(run.trace, RoundRecord(run, kind, tallies, winners, losers))]

\* The transfers of the candidates resolved in a round, one after the other.
RECURSIVE TransferAll(_, _, _, _, _, _)
TransferAll(sources, surplus, ballots, before, after, acc) ==
    IF sources = <<>> \/ acc.error # "" THEN acc
    ELSE LET c == Head(sources)
             tr == transfer(cfg.transfer, c, SelectCredited(ballots, {c}, before),
                            surplus[c], after, acc.rng)
         IN  TransferAll(Tail(sources), surplus, ballots, before, after,
                 [moved |-> acc.moved \o tr.moved,
                  exhausted |-> RAdd(acc.exhausted, tr.exhausted),
                  held |-> [acc.held EXCEPT ![c] = tr.stay],
                  rng |-> tr.rng,
                  error |-> tr.error])

Resolve(run, sources, surplus, after) ==
    TransferAll(sources, surplus, run.profile, run.remaining, after,
        [moved |-> <<>>, exhausted |-> Zero, held |-> run.held,
         rng |-> run.rng, error |-> ""])

RoundTallies(run) == run.tallies

\* Mutant: a candidate has to exceed the threshold.
OverThresholdStrictly(run) ==
    {c \in run.remaining : RLt(run.threshold, run.tallies[c])}

\* The candidates that cross the threshold in the next round.
OverThreshold(run) ==
    {c \in run.remaining : RLe(run.threshold, run.tallies[c])}

SeatsLeft(run) == cfg.m - Len(run.elected)

\* Mutant: all the candidates over threshold are elected in either mode.
ElectChoiceAll(run) ==
    [winners |-> ByScore(OverThreshold(run), RoundTallies(run)),
     rng |-> run.rng, error |-> "", tied |-> {}]

\* The candidates a round elects: all those over threshold, or in the
\* one-by-one mode the single highest of them.
ElectChoice(run) ==
    LET tallies == RoundTallies(run)
        over == OverThreshold(run)
        top == Highest(over, tallies)
    IN  IF cfg.simultaneous
        THEN [winners |-> ByScore(over, tallies), rng |-> run.rng, error |-> "", tied |-> {}]
        ELSE IF Cardinality(top) = 1
        THEN [winners |-> <<CHOOSE c \in top : TRUE>>, rng |-> run.rng, error |-> "", tied |-> {}]
        ELSE LET tb == break_tie(cfg.tiebreak, top, input, run.rng, FALSE)
             IN  [winners |-> <<tb.choice>>, rng |-> tb.rng, error |-> tb.error, tied |-> top]

\* Mutant: the candidates a round elects are put first in the sequence.
ElectStepPrepending(run) ==
    LET tallies == RoundTallies(run)
        choice == ElectChoice(run)
        winners == SeqToSet(choice.winners)
        after == run.remaining \ winners
        surplus == [c \in winners |-> RSub(tallies[c], run.threshold)]
        res == Resolve([run EXCEPT !.rng = choice.rng], choice.winners, surplus, after)
        elected == WithRound(choice.winners, run.round + 1) \o run.elected
    IN  IF choice.error # "" THEN Failed(run, choice.error, choice.tied)
        ELSE IF res.error # "" THEN Failed(run, res.error, {})
        ELSE Completed(
               [run EXCEPT !.round = run.round + 1,
                           !.remaining = after,
                           !.elected = elected,
                           !.profile = SelectOthers(run.profile, winners, run.remaining)
                                       \o res.moved,
                           !.exhausted = RAdd(run.exhausted, res.exhausted),
                           !.held = res.held,
                           !.rng = res.rng,
                           !.status = IF Len(elected) >= cfg.m THEN "Complete"
                                      ELSE "InProgress"],
               "elect", tallies, choice.winners, <<>>)

\* A round in which candidates cross the threshold: they are elected and
\* their surplus is passed on.
ElectStep(run) ==
    LET tallies == RoundTallies(run)
        choice == ElectChoice(run)
        winners == SeqToSet(choice.winners)
        after == run.remaining \ winners
        surplus == [c \in winners |-> RSub(tallies[c], run.threshold)]
        res == Resolve([run EXCEPT !.rng = choice.rng], choice.winners, surplus, after)
        elected == run.elected \o WithRound(choice.winners, run.round + 1)
    IN  IF choice.error # "" THEN Failed(run, choice.error, choice.tied)
        ELSE IF res.error # "" THEN Failed(run, res.error, {})
        ELSE Completed(
               [run EXCEPT !.round = run.round + 1,
                           !.remaining = after,
                           !.elected = elected,
                           !.profile = SelectOthers(run.profile, winners, run.remaining)
                                       \o res.moved,
                           !.exhausted = RAdd(run.exhausted, res.exhausted),
                           !.held = res.held,
                           !.rng = res.rng,
                           !.status = IF Len(elected) >= cfg.m THEN "Complete"
                                      ELSE "InProgress"],
               "elect", tallies, choice.winners, <<>>)

\* Mutant: the first of the remaining candidates is eliminated.
EliminateChoiceFirst(run) ==
    [loser |-> FirstDeclared(run.remaining), rng |-> run.rng, error |-> "", tied |-> {}]

\* The candidate a round eliminates: the one with the fewest votes.
EliminateChoice(run) ==
    LET tallies == RoundTallies(run)
        low == Lowest(run.remaining, tallies)
    IN  IF Cardinality(low) = 1
        THEN [loser |-> CHOOSE c \in low : TRUE, rng |-> run.rng, error |-> "", tied |-> {}]
        ELSE LET tb == break_tie(cfg.tiebreak, low, input, run.rng, TRUE)
             IN  [loser |-> tb.choice, rng |-> tb.rng, error |-> tb.error, tied |-> low]

\* Mutant: the eliminated candidate is left in the count.
StillRemaining(run, loser) == run.remaining

\* The candidates left in the count when `loser` is eliminated.
AfterElimination(run, loser) == run.remaining \ {loser}

\* Mutant: the transfer rule is given no weight to pass on.
EliminateStepNoSurplus(run) ==
    LET tallies == RoundTallies(run)
        choice == EliminateChoice(run)
        after == AfterElimination(run, choice.loser)
        res == Resolve([run EXCEPT !.rng = choice.rng], <<choice.loser>>,
                       [c \in {choice.loser} |-> Zero], after)
    IN  IF choice.error # "" THEN Failed(run, choice.error, choice.tied)
        ELSE IF res.error # "" THEN Failed(run, res.error, {})
        ELSE Completed(
               [run EXCEPT !.round = run.round + 1,
                           !.remaining = after,
                           !.eliminated = run.eliminated
                                          \o WithRound(<<choice.loser>>, run.round + 1),
                           !.profile = SelectOthers(run.profile, {choice.loser}, run.remaining)
                                       \o res.moved,
                           !.exhausted = RAdd(run.exhausted, res.exhausted),
                           !.held = res.held,
                           !.rng = res.rng],
               "eliminate", tallies, <<>>, <<choice.loser>>)

\* A round in which no candidate crosses the threshold: the candidate with
\* the fewest votes is eliminated and their ballots are fully passed on.
EliminateStep(run) ==
    LET tallies == RoundTallies(run)
        choice == EliminateChoice(run)
        after == AfterElimination(run, choice.loser)
        res == Resolve([run EXCEPT !.rng = choice.rng], <<choice.loser>>,
                       [c \in {choice.loser} |-> tallies[c]], after)
    IN  IF choice.error # "" THEN Failed(run, choice.error, choice.tied)
        ELSE IF res.error # "" THEN Failed(run, res.error, {})
        ELSE Completed(
               [run EXCEPT !.round = run.round + 1,
                           !.remaining = after,
                           !.eliminated = run.eliminated
                                          \o WithRound(<<choice.loser>>, run.round + 1),
                           !.profile = SelectOthers(run.profile, {choice.loser}, run.remaining)
                                       \o res.moved,
                           !.exhausted = RAdd(run.exhausted, res.exhausted),
                           !.held = res.held,
                           !.rng = res.rng],
               "eliminate", tallies, <<>>, <<choice.loser>>)

\* Mutant: the seats are filled and the election is not flagged short.
FillStepUnflagged(run) ==
    LET tallies == RoundTallies(run)
        winners == ByScore(run.remaining, tallies)
    IN  Completed(
          [run EXCEPT !.round = run.round + 1,
                      !.remaining = {},
                      !.elected = run.elected \o WithRound(winners, run.round + 1),
                      !.profile = SelectOthers(run.profile, run.remaining, run.remaining),
                      !.held = [c \in CandSet |->
                                   IF c \in run.remaining THEN tallies[c] ELSE run.held[c]],
                      !.status = "Complete"],
          "fill", tallies, winners, <<>>)

\* The last round of a short election: the candidates left fill the seats
\* left, below the threshold, from the top-positioned down.
FillStep(run) ==
    LET tallies == RoundTallies(run)
        winners == ByScore(run.remaining, tallies)
    IN  Completed(
          [run EXCEPT !.round = run.round + 1,
                      !.remaining = {},
                      !.elected = run.elected \o WithRound(winners, run.round + 1),
                      !.profile = SelectOthers(run.profile, run.remaining, run.remaining),
                      !.held = [c \in CandSet |->
                                   IF c \in run.remaining THEN tallies[c] ELSE run.held[c]],
                      !.short = TRUE,
                      !.status = "Complete"],
          "fill", tallies, winners, <<>>)

-----------------------------------------------------------------------------
(* Plurality (SNTV): one round, no threshold and no transfer; the winners  *)
(* are the m candidates with the most first-place votes.                   *)

\* Mutant: the candidates with no more than m candidates behind them.
SureLosers(tallies, m) ==
    {c \in DOMAIN tallies :
        Cardinality({d \in DOMAIN tallies : RLe(tallies[d], tallies[c])}) <= m}

\* The candidates who are among the m with the most votes whatever way a
\* tie is broken: those with at most m candidates at or above their votes.
SureWinners(tallies, m) ==
    {c \in DOMAIN tallies :
        Cardinality({d \in DOMAIN tallies : RLe(tallies[c], tallies[d])}) <= m}

\* The candidates tied at the cutoff for the seats the sure winners leave.
AtCutoff(tallies, m) ==
    IF Cardinality(SureWinners(tallies, m)) >= m THEN {}
    ELSE Highest(DOMAIN tallies \ SureWinners(tallies, m), tallies)

\* k of the tied candidates, picked one after the other by the tie-break.
RECURSIVE PickTied(_, _, _)
PickTied(tied, k, rng) ==
    IF k <= 0 THEN [picked |-> <<>>, rng |-> rng, error |-> ""]
    ELSE LET tb == break_tie(cfg.tiebreak, tied, input, rng, FALSE)
         IN  IF tb.error # "" THEN [picked |-> <<>>, rng |-> rng, error |-> tb.error]
             ELSE LET rest == PickTied(tied \ {tb.choice}, k - 1, tb.rng)
                  IN  [picked |-> <<tb.choice>> \o rest.picked,
                       rng |-> rest.rng, error |-> rest.error]

\* The one round of a plurality election.
PluralityStep(run) ==
    LET tallies == RoundTallies(run)
        sure == SureWinners(tallies, cfg.m)
        tied == AtCutoff(tallies, cfg.m)
        picked == PickTied(tied, cfg.m - Cardinality(sure), run.rng)
        winners == ByScore(sure, tallies) \o picked.picked
    IN  IF picked.error # "" THEN Failed(run, picked.error, tied)
        ELSE Completed(
               [run EXCEPT !.round = run.round + 1,
                           !.remaining = run.remaining \ SeqToSet(winners),
                           !.elected = WithRound(winners, run.round + 1),
                           !.held = [c \in CandSet |->
                                        IF c \in SeqToSet(winners) THEN tallies[c] ELSE Zero],
                           !.rng = picked.rng,
                           !.status = "Complete"],
               "plurality", tallies, winners, <<>>)

-----------------------------------------------------------------------------
(* The inputs of the model. *)

Names == <<"A", "B", "C">>

NameSet == {Names[i] : i \in 1..Len(Names)}

\* The linear rankings of one or more of the candidates.
Rankings ==
    {[i \in 1..Len(s) |-> {s[i]}] :
        s \in {t \in UNION {[1..n -> NameSet] : n \in 1..Len(Names)} :
                  \A i, j \in 1..Len(t) : i # j => t[i] # t[j]}}

Ballots == {Ballot(r, RInt(w)) : r \in Rankings, w \in 1..MaxWeight}

Profiles == UNION {[1..n -> Ballots] : n \in 1..MaxBallots}

Lin(s) == [i \in 1..Len(s) |-> {s[i]}]

\* The count of the design's STV scenario: two candidates, four voters.
TieScenario ==
    [candidates |-> <<"A", "B">>,
     profile |-> <<Ballot(Lin(<<"A", "B">>), One), Ballot(Lin(<<"A", "B">>), One),
                   Ballot(Lin(<<"B", "A">>), One), Ballot(Lin(<<"B", "A">>), One)>>]

\* The tutorial's profile of six ballots for three candidates.
TutorialScenario ==
    [candidates |-> Names,
     profile |-> <<Ballot(Lin(<<"A", "B", "C">>), RInt(3)),
                   Ballot(Lin(<<"B", "A", "C">>), One),
                   Ballot(Lin(<<"C", "B", "A">>), One),
                   Ballot(Lin(<<"A", "B", "C">>), One),
                   Ballot(Lin(<<"A", "B", "C">>), One),
                   Ballot(Lin(<<"B", "A", "C">>), One)>>]

\* The tutorial's ballot of fractional weight.
FractionScenario ==
    [candidates |-> Names,
     profile |-> <<Ballot(Lin(<<"A", "B", "C">>), <<3, 2>>)>>]

\* Two candidates over threshold with different votes.
TwoOverScenario ==
    [candidates |-> Names,
     profile |-> <<Ballot(Lin(<<"A", "C">>), RInt(5)), Ballot(Lin(<<"B", "C">>), RInt(4))>>]

\* The documentation's transfer example: a candidate with 1500 votes at a
\* threshold of 1000 (the Droop quota of 1998 votes for one seat).
ThresholdScenario ==
    [candidates |-> Names,
     profile |-> <<Ballot(Lin(<<"A", "B">>), RInt(1500)),
                   Ballot(Lin(<<"C", "B">>), RInt(498))>>]

\* A candidate credited with a ballot of integer weight and one of
\* fractional weight, over the threshold for two seats.
MixedScenario ==
    [candidates |-> Names,
     profile |-> <<Ballot(Lin(<<"A", "B">>), <<3, 2>>), Ballot(Lin(<<"A", "C">>), One)>>]

\* A candidate with a ballot of fractional weight who is eliminated.
HalfScenario ==
    [candidates |-> <<"A", "B">>,
     profile |-> <<Ballot(Lin(<<"A", "B">>), RInt(2)), Ballot(Lin(<<"B", "A">>), <<1, 2>>)>>]

\* The design's plurality scenario: A>B>C x3, B>A>C x2, C>B>A x1.
PluralityScenario ==
    [candidates |-> Names,
     profile |-> <<Ballot(Lin(<<"A", "B", "C">>), RInt(3)),
                   Ballot(Lin(<<"B", "A", "C">>), RInt(2)),
                   Ballot(Lin(<<"C", "B", "A">>), One)>>]

Scenarios ==
    {TieScenario, TutorialScenario, FractionScenario, TwoOverScenario,
     ThresholdScenario, MixedScenario, HalfScenario}

Inputs ==
    {[candidates |-> Names, profile |-> p] : p \in Profiles} \cup Scenarios

Configs ==
    [m : 1..MaxSeats,
     quota : {"droop", "hare"},
     transfer : {"fractional", "random", "none"},
     tiebreak : {"none", "random", "first_place"},
     simultaneous : BOOLEAN,
     seed : 0..(NumSeeds - 1)]

\* Whether an election of this configuration ever draws from its generator.
UsesGenerator(c) == c.transfer = "random" \/ c.tiebreak = "random"

\* Whether the profile is within the bound of the configuration's transfer.
WithinPool(c, profile) ==
    c.transfer = "random" => RLe(total_ballot_wt(profile), RInt(MaxPool))

-----------------------------------------------------------------------------
(* One election. *)

Init ==
    /\ \E i \in Inputs :
          /\ candidates = i.candidates
          /\ input = i.profile
    /\ cfg \in Configs
    /\ cfg.m <= Len(candidates)
    /\ UsesGenerator(cfg) \/ cfg.seed = 0
    /\ WithinPool(cfg, input)
    /\ runs = [r \in {1} |-> NewRun(cfg.seed)]
    /\ ambient = 0
    /\ quotaCall = NoCall
    /\ opCall = NoOp

Frame == UNCHANGED <<candidates, cfg, input, ambient, quotaCall, opCall>>

\* What the next round of a run is: an election if a candidate is over the
\* threshold; else the filling of the seats left if no more candidates are
\* left than seats; else an elimination.
CanElect(run) ==
    /\ run.status = "InProgress"
    /\ OverThreshold(run) # {}

\* Mutant: the seats left are filled only once no candidate is left.
CanFillWhenNoneLeft(run) ==
    /\ run.status = "InProgress"
    /\ OverThreshold(run) = {}
    /\ run.remaining = {}

CanFill(run) ==
    /\ run.status = "InProgress"
    /\ OverThreshold(run) = {}
    /\ Cardinality(run.remaining) <= SeatsLeft(run)

\* Mutant: a candidate is eliminated whether or not one is over threshold.
CanEliminateRegardless(run) ==
    /\ run.status = "InProgress"
    /\ Cardinality(run.remaining) > SeatsLeft(run)

CanEliminate(run) ==
    /\ run.status = "InProgress"
    /\ OverThreshold(run) = {}
    /\ Cardinality(run.remaining) > SeatsLeft(run)

\* The next round of an election run alone.
StepAlone(run) ==
    IF CanElect(run) THEN ElectStep(run)
    ELSE IF CanFill(run) THEN FillStep(run)
    ELSE IF CanEliminate(run) THEN EliminateStep(run)
    ELSE run

\* Mutant: the state of the round is kept in one place for all elections.
ElectRoundShared(r) ==
    /\ CanElect(runs[r])
    /\ runs' = [s \in DOMAIN runs |-> ElectStep(runs[r])]
    /\ Frame

ElectRound(r) ==
    /\ CanElect(runs[r])
    /\ runs' = [runs EXCEPT ![r] = ElectStep(runs[r])]
    /\ Frame

FillRound(r) ==
    /\ CanFill(runs[r])
    /\ runs' = [runs EXCEPT ![r] = FillStep(runs[r])]
    /\ Frame

EliminateRound(r) ==
    /\ CanEliminate(runs[r])
    /\ runs' = [runs EXCEPT ![r] = EliminateStep(runs[r])]
    /\ Frame

Elect == \E r \in DOMAIN runs : ElectRound(r)

Fill == \E r \in DOMAIN runs : FillRound(r)

Eliminate == \E r \in DOMAIN runs : EliminateRound(r)

Next == Elect \/ Fill \/ Eliminate

Spec == Init /\ [][Next]_vars

\* An election is one synchronous computation: a round that can run, runs.
FairSpec == Spec /\ WF_vars(Next)

-----------------------------------------------------------------------------
(* Two elections on the same profile, with the same configuration and the  *)
(* same seed, their rounds interleaved in any order, while other code      *)
(* draws from the process-wide random state.                               *)

PairProfiles == UNION {[1..n -> Ballots] : n \in 1..PairBallots}

PairInputs ==
    {[candidates |-> Names, profile |-> p] : p \in PairProfiles} \cup Scenarios

InitPair ==
    /\ \E i \in PairInputs :
          /\ candidates = i.candidates
          /\ input = i.profile
    /\ cfg \in Configs
    /\ cfg.m <= Len(candidates)
    /\ UsesGenerator(cfg) \/ cfg.seed = 0
    /\ WithinPool(cfg, input)
    /\ runs = [r \in {1, 2} |-> NewRun(cfg.seed)]
    /\ ambient = 0
    /\ quotaCall = NoCall
    /\ opCall = NoOp

AmbientDraw ==
    /\ ambient' = (ambient + 1) % NumSeeds
    /\ UNCHANGED <<candidates, cfg, input, runs, quotaCall, opCall>>

NextPair == Elect \/ Fill \/ Eliminate \/ AmbientDraw

SpecPair == InitPair /\ [][NextPair]_vars

-----------------------------------------------------------------------------
(* Independent elections on the same profile, each with a generator of its *)
(* own, their rounds interleaved in any order.                             *)

InitConcurrent ==
    /\ \E i \in PairInputs :
          /\ candidates = i.candidates
          /\ input = i.profile
    /\ cfg \in Configs
    /\ cfg.m <= Len(candidates)
    /\ cfg.seed = 0
    /\ WithinPool(cfg, input)
    /\ \E seeds \in [1..NumRuns -> 0..(NumSeeds - 1)] :
          /\ UsesGenerator(cfg) \/ \A r \in 1..NumRuns : seeds[r] = 0
          /\ runs = [r \in 1..NumRuns |-> NewRun(seeds[r])]
    /\ ambient = 0
    /\ quotaCall = NoCall
    /\ opCall = NoOp

NextConcurrent == Elect \/ Fill \/ Eliminate

SpecConcurrent == InitConcurrent /\ [][NextConcurrent]_vars

-----------------------------------------------------------------------------
(* The quota calculator on its own. *)

DefaultConfig ==
    [m |-> 1, quota |-> "droop", transfer |-> "fractional", tiebreak |-> "none",
     simultaneous |-> TRUE, seed |-> 0]

InitQuota ==
    /\ candidates = Names
    /\ cfg = DefaultConfig
    /\ input = <<>>
    /\ runs = <<>>
    /\ ambient = 0
    /\ quotaCall = NoCall
    /\ opCall = NoOp

ComputeQuota ==
    /\ \E n \in (-MaxDeficit)..MaxVotes, d \in 1..2,
          m \in (-MaxDeficit)..MaxQuotaSeats, q \in {"droop", "hare"} :
          LET call == compute_quota(q, Frac(n, d), m)
          IN  quotaCall' = [votes |-> Frac(n, d), seats |-> m, quota |-> q,
                            error |-> call.error, result |-> call.result]
    /\ UNCHANGED <<candidates, cfg, input, runs, ambient, opCall>>

NextQuota == ComputeQuota

SpecQuota == InitQuota /\ [][NextQuota]_vars

-----------------------------------------------------------------------------
(* A plurality election. *)

PluralityConfigs ==
    [m : 1..MaxSeats,
     quota : {"droop"},
     transfer : {"none"},
     tiebreak : {"none", "random", "first_place", "borda"},
     simultaneous : {TRUE},
     seed : 0..(NumSeeds - 1)]

InitPlurality ==
    /\ \E i \in Inputs \cup {PluralityScenario} :
          /\ candidates = i.candidates
          /\ input = i.profile
    /\ cfg \in PluralityConfigs
    /\ cfg.m <= Len(candidates)
    /\ cfg.tiebreak = "random" \/ cfg.seed = 0
    /\ runs = [r \in {1} |-> NewRun(cfg.seed)]
    /\ ambient = 0
    /\ quotaCall = NoCall
    /\ opCall = NoOp

PluralityRound ==
    \E r \in DOMAIN runs :
        /\ runs[r].status = "InProgress"
        /\ runs' = [runs EXCEPT ![r] = PluralityStep(runs[r])]
        /\ Frame

NextPlurality == PluralityRound

SpecPlurality == InitPlurality /\ [][NextPlurality]_vars

-----------------------------------------------------------------------------
(* The scoring of one ballot by a score vector. *)

\* The rankings with tied positions: sequences of disjoint non-empty sets
\* of candidates.
TiedRankings ==
    {r \in UNION {[1..n -> (SUBSET NameSet) \ {{}}] : n \in 1..Len(Names)} :
        \A i, j \in 1..Len(r) : i # j => r[i] \cap r[j] = {}}

\* The score vectors r_1 >= r_2 >= ... >= r_n.
ScoreVectors ==
    {v \in [1..Len(Names) -> 0..MaxScore] :
        \A i \in 1..(Len(Names) - 1) : v[i] >= v[i + 1]}

InitScore ==
    /\ candidates = Names
    /\ cfg = DefaultConfig
    /\ input = <<>>
    /\ runs = <<>>
    /\ ambient = 0
    /\ quotaCall = NoCall
    /\ opCall = NoOp

ScoreBallot ==
    /\ \E r \in TiedRankings, v \in ScoreVectors :
          opCall' = [op |-> "score", ranking |-> r, vector |-> v,
                     result |-> score_dict_from_score_vector(r, CandSet, v)]
    /\ UNCHANGED <<candidates, cfg, input, runs, ambient, quotaCall>>

NextScore == ScoreBallot

SpecScore == InitScore /\ [][NextScore]_vars

-----------------------------------------------------------------------------
(* A profile, the operations called on it and an election run on it, in    *)
(* any order.                                                              *)

ProfileRankings ==
    {Lin(<<"A", "B">>), Lin(<<"B", "A", "C">>), Lin(<<"C">>)}

ProfileBallots == {Ballot(r, RInt(w)) : r \in ProfileRankings, w \in 1..MaxWeight}

ProfileInputs == UNION {[1..n -> ProfileBallots] : n \in 1..MaxProfile}

ProfileConfigs ==
    {c \in Configs : /\ c.quota = "droop" /\ c.simultaneous
                     /\ c.tiebreak # "first_place" /\ c.seed = 0}

InitProfile ==
    /\ candidates = Names
    /\ input \in ProfileInputs
    /\ cfg \in ProfileConfigs
    /\ UsesGenerator(cfg) \/ cfg.seed = 0
    /\ WithinPool(cfg, input)
    /\ runs = [r \in {1} |-> NewRun(cfg.seed)]
    /\ ambient = 0
    /\ quotaCall = NoCall
    /\ opCall = NoOp

ProfileFrame == UNCHANGED <<candidates, cfg, runs, ambient, quotaCall>>

Condense ==
    /\ opCall' = [op |-> "condense", arg |-> input, result |-> condense_ballots(input),
                  again |-> condense_ballots(condense_ballots(input))]
    /\ UNCHANGED input
    /\ ProfileFrame

HeadView ==
    /\ \E n \in 1..MaxProfile :
          opCall' = [op |-> "head", arg |-> input, result |-> head(input, n)]
    /\ UNCHANGED input
    /\ ProfileFrame

Standardize ==
    /\ opCall' = [op |-> "standardize", arg |-> input, result |-> standardize(input)]
    /\ UNCHANGED input
    /\ ProfileFrame

\* An attempt to give a ballot of the profile another ranking.
AssignRanking ==
    /\ \E i \in 1..Len(input), r \in ProfileRankings :
          LET res == assign_field(input[i], "ranking", r)
          IN  /\ input' = [input EXCEPT ![i] = res.ballot]
              /\ opCall' = [op |-> "assign", arg |-> input, error |-> res.error]
    /\ ProfileFrame

NextProfile ==
    Condense \/ HeadView \/ Standardize \/ AssignRanking \/ Elect \/ Fill \/ Eliminate

SpecProfile == InitProfile /\ [][NextProfile]_vars

-----------------------------------------------------------------------------
(* The construction of a profile from what a caller passes, and an election *)
(* on the profile constructed.                                             *)

\* The candidate lists a caller passes: names, some of them repeated.
RawCandidates == [1..Len(Names) -> NameSet]

\* The ballots a caller passes: weights below zero and of zero among them.
RawBallots ==
    {Ballot(r, RInt(w)) : r \in ProfileRankings, w \in (-MaxDeficit)..MaxWeight}

RawProfiles == UNION {[1..n -> RawBallots] : n \in 1..MaxBallots}

ConstructConfigs ==
    {c \in Configs : /\ c.quota = "droop" /\ c.simultaneous
                     /\ c.tiebreak = "random" /\ c.seed = 0}

InitConstruct ==
    /\ candidates = <<>>
    /\ input = <<>>
    /\ cfg \in ConstructConfigs
    /\ runs = <<>>
    /\ ambient = 0
    /\ quotaCall = NoCall
    /\ opCall = NoOp

Construct ==
    /\ opCall = NoOp
    /\ \E cands \in RawCandidates, ballots \in RawProfiles :
          LET res == PreferenceProfile(ballots, cands)
          IN  /\ opCall' = [op |-> "construct", candidates |-> cands,
                            ballots |-> ballots, error |-> res.error]
              /\ candidates' = res.profile.candidates
              /\ input' = res.profile.ballots
    /\ UNCHANGED <<cfg, runs, ambient, quotaCall>>

\* An election is run on the profile that was constructed.
RunElection ==
    /\ opCall # NoOp
    /\ opCall.error = ""
    /\ DOMAIN runs = {}
    /\ cfg.m <= Len(candidates)
    /\ runs' = [r \in {1} |-> NewRun(cfg.seed)]
    /\ Frame

NextConstruct == Construct \/ RunElection \/ Elect \/ Fill \/ Eliminate

SpecConstruct == InitConstruct /\ [][NextConstruct]_vars

-----------------------------------------------------------------------------
(* An IRV election and the STV election for one seat on the same profile,  *)
(* with the same quota, transfer rule, tie-break rule, mode and seed.      *)

\* What an IRV election is constructed with: no number of seats.
IRVParams ==
    [quota : {"droop", "hare"},
     transfer : {"fractional", "random", "none"},
     tiebreak : {"none", "random", "first_place"},
     simultaneous : BOOLEAN,
     seed : 0..(NumSeeds - 1)]

\* Mutant: the IRV election is run for two seats.
IRVTwoSeats(p) ==
    [m |-> 2, quota |-> p.quota, transfer |-> p.transfer, tiebreak |-> p.tiebreak,
     simultaneous |-> p.simultaneous, seed |-> p.seed]

\* The configuration of an IRV election: that of an STV election for one seat.
IRV(p) ==
    [m |-> 1, quota |-> p.quota, transfer |-> p.transfer, tiebreak |-> p.tiebreak,
     simultaneous |-> p.simultaneous, seed |-> p.seed]

\* Run 1 is the IRV election, run 2 the STV election with m = 1.
InitIRV ==
    /\ \E i \in PairInputs :
          /\ candidates = i.candidates
          /\ input = i.profile
    /\ \E p \in IRVParams : cfg = IRV(p)
    /\ UsesGenerator(cfg) \/ cfg.seed = 0
    /\ WithinPool(cfg, input)
    /\ runs = [r \in {1, 2} |-> NewRun(cfg.seed)]
    /\ ambient = 0
    /\ quotaCall = NoCall
    /\ opCall = NoOp

NextIRV == Elect \/ Fill \/ Eliminate

SpecIRV == InitIRV /\ [][NextIRV]_vars

-----------------------------------------------------------------------------
(* A deterministic election on a profile and the same election on the same *)
(* ballots in another order, round by round.                               *)

\* The orders the ballots of a profile can be given in.
Reorderings(ballots) ==
    {[i \in 1..Len(ballots) |-> ballots[f[i]]] :
        f \in {g \in [1..Len(ballots) -> 1..Len(ballots)] :
                  \A i, j \in 1..Len(ballots) : i # j => g[i] # g[j]}}

\* The election constructed on the given ballots.
OnProfile(run, ballots) ==
    [run EXCEPT !.profile = ballots,
                !.threshold = get_threshold(cfg.quota, total_ballot_wt(ballots), cfg.m),
                !.tallies = Tallies(ballots, CandSet)]

\* The elections that draw nothing from a generator.
DeterministicConfigs ==
    {c \in Configs : ~UsesGenerator(c) /\ c.seed = 0}

\* Run 1 is the election on the profile, run 2 the election on the same
\* ballots in another order.
InitPermuted ==
    /\ \E i \in {j \in Inputs : Len(j.profile) <= MaxPermuted} :
          /\ candidates = i.candidates
          /\ input = i.profile
    /\ cfg \in DeterministicConfigs
    /\ cfg.m <= Len(candidates)
    /\ \E p \in Reorderings(input) \ {input} :
          runs = [r \in {1, 2} |->
                     IF r = 1 THEN NewRun(cfg.seed) ELSE OnProfile(NewRun(cfg.seed), p)]
    /\ ambient = 0
    /\ quotaCall = NoCall
    /\ opCall = NoOp

\* The next round of both elections.
RoundOfEach ==
    /\ \E r \in DOMAIN runs : runs[r].status = "InProgress"
    /\ runs' = [r \in DOMAIN runs |-> StepAlone(runs[r])]
    /\ Frame

NextPermuted == RoundOfEach

SpecPermuted == InitPermuted /\ [][NextPermuted]_vars

-----------------------------------------------------------------------------
(* Properties. *)

Cands(entries) == {entries[i].candidate : i \in 1..Len(entries)}

RECURSIVE SumOver(_, _)
SumOver(among, score) ==
    IF among = {} THEN Zero
    ELSE LET c == CHOOSE x \in among : TRUE
         IN  RAdd(score[c], SumOver(among \ {c}, score))

\* Whether elected, eliminated and remaining split the candidates.
Partition(elected, eliminated, remaining) ==
    /\ Cands(elected) \cup Cands(eliminated) \cup remaining = CandSet
    /\ Cands(elected) \cap Cands(eliminated) = {}
    /\ Cands(elected) \cap remaining = {}
    /\ Cands(eliminated) \cap remaining = {}
    /\ Cardinality(Cands(elected)) = Len(elected)
    /\ Cardinality(Cands(eliminated)) = Len(eliminated)

\* C1: in every round of every election, the final one included, elected,
\* eliminated and remaining are pairwise disjoint and together are exactly
\* the candidates of the profile.
C1_Partition ==
    \A r \in DOMAIN runs :
        /\ Partition(runs[r].elected, runs[r].eliminated, runs[r].remaining)
        /\ \A k \in 1..Len(runs[r].trace) :
              Partition(runs[r].trace[k].elected, runs[r].trace[k].eliminated,
                        runs[r].trace[k].remaining)

C1_Witness ==
    \E r \in DOMAIN runs :
        /\ runs[r].round >= 2
        /\ runs[r].elected # <<>>
        /\ runs[r].eliminated # <<>>
        /\ runs[r].remaining # {}

\* The weight on record after a round: what the elected and the eliminated
\* candidates hold, what is credited to the remaining ones, what is exhausted.
WeightOnRecord(elected, eliminated, remaining, held, tallies, exhausted) ==
    RAdd(RAdd(SumOver(Cands(elected), held), SumOver(Cands(eliminated), held)),
         RAdd(SumOver(remaining, tallies), exhausted))

\* C2: after every round, under each transfer rule, elected weight +
\* eliminated weight + remaining weight + exhausted weight is the total
\* weight of the initial profile.
C2_WeightConserved ==
    \A r \in DOMAIN runs :
        WeightOnRecord(runs[r].elected, runs[r].eliminated, runs[r].remaining,
                       runs[r].held, runs[r].tallies, runs[r].exhausted)
            = total_ballot_wt(input)

C2_Witness ==
    \E r \in DOMAIN runs :
        /\ cfg.transfer = "fractional"
        /\ runs[r].elected # <<>>
        /\ runs[r].eliminated # <<>>
        /\ runs[r].exhausted # Zero
        /\ runs[r].profile # <<>>
        /\ \E c \in Cands(runs[r].elected) : runs[r].held[c] # Zero

\* C3: every election reaches Complete after at most |candidates| rounds or
\* stops with an error; none stays in progress for ever.
\* Every completed round takes at least one candidate out of remaining, and
\* a run in progress always has a round to run.
C3_Terminates ==
    \A r \in DOMAIN runs :
        /\ runs[r].round <= Len(candidates)
        /\ Len(runs[r].trace) = runs[r].round
        /\ Cardinality(runs[r].remaining) <= Len(candidates) - runs[r].round
        /\ runs[r].status \in {"InProgress", "Complete", "Error"}
        /\ runs[r].status = "Error" <=> runs[r].error # ""
        /\ runs[r].status = "InProgress" =>
              /\ runs[r].remaining # {}
              /\ CanElect(runs[r]) \/ CanFill(runs[r]) \/ CanEliminate(runs[r])
        /\ runs[r].status = "Complete" => Len(runs[r].elected) = cfg.m

C3_Witness ==
    \E r \in DOMAIN runs :
        /\ runs[r].status = "Complete"
        /\ runs[r].round = Len(candidates)

\* The candidates a run elected by crossing the threshold.
QuotaWinners(run) ==
    UNION {SeqToSet(run.trace[k].winners) :
              k \in {j \in 1..Len(run.trace) : run.trace[j].kind = "elect"}}

OverIn(run, k) ==
    {c \in run.trace[k].before : RLe(run.threshold, run.trace[k].tallies[c])}

\* C5: in the simultaneous mode every round elects exactly the remaining
\* candidates whose tally is at least the quota, all of them together; only
\* the last round of a short election elects candidates below it.
C5_SimultaneousElection ==
    \A r \in DOMAIN runs :
        cfg.simultaneous =>
            \A k \in 1..Len(runs[r].trace) :
                /\ runs[r].trace[k].kind = "elect"
                      => SeqToSet(runs[r].trace[k].winners) = OverIn(runs[r], k)
                /\ runs[r].trace[k].kind # "elect" => OverIn(runs[r], k) = {}
                /\ runs[r].trace[k].kind = "eliminate" => runs[r].trace[k].winners = <<>>

C5_Witness ==
    \E r \in DOMAIN runs :
        /\ cfg.simultaneous
        /\ \E k \in 1..Len(runs[r].trace) :
              /\ runs[r].trace[k].kind = "elect"
              /\ Len(runs[r].trace[k].winners) = 2
              /\ runs[r].trace[k].remaining # {}

\* C6: in the one-by-one mode a round with two or more candidates over the
\* quota elects exactly one, one of highest tally; the others over the quota
\* stay in remaining.
C6_OneByOneElection ==
    \A r \in DOMAIN runs :
        ~cfg.simultaneous =>
            \A k \in 1..Len(runs[r].trace) :
                Cardinality(OverIn(runs[r], k)) >= 2 =>
                    /\ runs[r].trace[k].kind = "elect"
                    /\ Len(runs[r].trace[k].winners) = 1
                    /\ runs[r].trace[k].winners[1]
                          \in Highest(OverIn(runs[r], k), runs[r].trace[k].tallies)
                    /\ OverIn(runs[r], k) \ {runs[r].trace[k].winners[1]}
                          \subseteq runs[r].trace[k].remaining
                    /\ Len(runs[r].trace[k].elected)
                          = (IF k = 1 THEN 0 ELSE Len(runs[r].trace[k - 1].elected)) + 1

C6_Witness ==
    \E r \in DOMAIN runs :
        /\ ~cfg.simultaneous
        /\ Len(runs[r].trace) >= 2
        /\ Cardinality(OverIn(runs[r], 1)) = 2
        /\ Cardinality(Highest(OverIn(runs[r], 1), runs[r].trace[1].tallies)) = 1
        /\ runs[r].trace[2].kind = "elect"
        /\ runs[r].trace[2].winners[1] \in OverIn(runs[r], 1)

\* Whether the next round of a run has to eliminate one of several
\* candidates of lowest tally.
TieAtBottom(run) ==
    /\ CanEliminate(run)
    /\ Cardinality(Lowest(run.remaining, run.tallies)) >= 2

\* C7: with tiebreak none, a round in which no candidate reaches the quota
\* and several tie for the lowest tally raises TiebreakRequiredError naming
\* exactly the tied candidates and eliminates nobody; the count of A>B, A>B,
\* B>A, B>A for one seat under the Droop quota 3 raises it in round 1.
C7_TieNeedsRule ==
    [][\A r \in DOMAIN runs :
          /\ (cfg.tiebreak = "none" /\ TieAtBottom(runs[r]) /\ runs'[r] # runs[r])
                => runs'[r] = [runs[r] EXCEPT
                                  !.status = "Error",
                                  !.error = "TiebreakRequiredError",
                                  !.tied = Lowest(runs[r].remaining, runs[r].tallies)]
          /\ (/\ candidates = TieScenario.candidates
              /\ input = TieScenario.profile
              /\ cfg.m = 1 /\ cfg.quota = "droop" /\ cfg.tiebreak = "none"
              /\ runs[r].round = 0)
                => /\ runs[r].threshold = RInt(3)
                   /\ TieAtBottom(runs[r])
                   /\ runs'[r].tied = {"A", "B"}]_vars

C7_Witness ==
    \E r \in DOMAIN runs :
        /\ input = TieScenario.profile
        /\ cfg.m = 1 /\ cfg.quota = "droop" /\ cfg.tiebreak = "none"
        /\ runs[r].status = "Error"
        /\ runs[r].error = "TiebreakRequiredError"
        /\ runs[r].tied = {"A", "B"}
        /\ runs[r].round = 0
        /\ runs[r].eliminated = <<>>

C9_DroopFormula ==
    (quotaCall.quota = "droop" /\ RLe(Zero, quotaCall.votes) /\ quotaCall.seats >= 1) =>
        LET N == quotaCall.votes
            m == quotaCall.seats
            q == quotaCall.result
        IN  /\ q[1] * (m + 1) * N[2] = (N[1] + (m + 1) * N[2]) * q[2]
            /\ q[2] > 0
            /\ GCD(Abs(q[1]), q[2]) = 1

C9_Witness ==
    /\ quotaCall.quota = "droop"
    /\ quotaCall.votes = RInt(10)
    /\ quotaCall.seats = 2
    /\ quotaCall.result = <<13, 3>>

\* C10 as stated: with 100 votes and 3 seats the Droop quota is 26 and the
\* Hare quota is 25.
C10_QuotasAsStated ==
    (quotaCall.votes = RInt(100) /\ quotaCall.seats = 3) =>
        /\ quotaCall.quota = "droop" => quotaCall.result = RInt(26)
        /\ quotaCall.quota = "hare" => quotaCall.result = RInt(25)

\* C10 as amended: with 100 votes and 3 seats the Droop quota is 26 and the
\* Hare quota is 100/3 + 1 = 103/3.
C10_Quotas ==
    (quotaCall.votes = RInt(100) /\ quotaCall.seats = 3) =>
        /\ quotaCall.quota = "droop" => quotaCall.result = RInt(26)
        /\ quotaCall.quota = "hare" => quotaCall.result = <<103, 3>>

C10_Witness ==
    /\ quotaCall.votes = RInt(100)
    /\ quotaCall.seats = 3
    /\ quotaCall.quota = "hare"
    /\ quotaCall.result = <<103, 3>>

\* C11: a quota computation called with seats <= 0 or with a total weight
\* below 0 fails with InvalidQuotaInput and returns no quota; called with
\* seats >= 1 and a total weight of 0 or more it never fails and returns a
\* quota.
C11_QuotaInputChecked ==
    quotaCall.quota # "" =>
        IF quotaCall.seats <= 0 \/ quotaCall.votes[1] < 0
        THEN /\ quotaCall.error = "InvalidQuotaInput"
             /\ quotaCall.result = NoQuota
        ELSE /\ quotaCall.error = ""
             /\ quotaCall.result # NoQuota
             /\ quotaCall.result[2] > 0

C11_Witness ==
    /\ quotaCall.quota = "hare"
    /\ quotaCall.seats = 2
    /\ quotaCall.votes = <<-1, 2>>
    /\ quotaCall.error = "InvalidQuotaInput"

\* The candidates a step of a run elects.
NewlyElected(run, nxt) == Cands(nxt.elected) \ Cands(run.elected)

\* The weight of the ballots of a given ranking.
RECURSIVE WeightOf(_, _)
WeightOf(ballots, ranking) ==
    IF ballots = <<>> THEN Zero
    ELSE IF Head(ballots).ranking = ranking
         THEN RAdd(Head(ballots).weight, WeightOf(Tail(ballots), ranking))
         ELSE WeightOf(Tail(ballots), ranking)

RankingsOf(ballots) == {ballots[i].ranking : i \in 1..Len(ballots)}

\* The candidate of `among` a ballot is credited to.
Holder(ballot, among) == CHOOSE c \in among : TopOf(ballot, among) = {c}

\* What the ballots of a run are to be after the fractional transfer of the
\* surplus of the candidates W: a ballot credited to w in W with a next
\* preference among the candidates left has its weight times (T - Q) / T, one
\* without a next preference is dropped, every other ballot is as it was.
FractionallyPassed(run, W) ==
    [i \in 1..Len(run.profile) |->
        LET b == run.profile[i]
        IN  IF TopOf(b, run.remaining) \subseteq W
            THEN LET T == run.tallies[Holder(b, run.remaining)]
                 IN  IF TopOf(b, run.remaining \ W) # {}
                     THEN Ballot(b.ranking,
                                 RMul(b.weight, RDiv(RSub(T, run.threshold), T)))
                     ELSE Ballot(b.ranking, Zero)
            ELSE b]

\* C12: under fractional transfer of the surplus of a candidate elected with
\* tally T >= quota Q, every ballot credited to that candidate whose next
\* preference is a remaining candidate is passed on with its weight times
\* (T - Q) / T, to that next preference and no other candidate; the other
\* ballots keep their weight.
C12_FractionalTransfer ==
    [][\A r \in DOMAIN runs :
          (/\ cfg.transfer = "fractional"
           /\ CanElect(runs[r])
           /\ runs'[r] # runs[r]
           /\ runs'[r].status # "Error")
             => LET W == NewlyElected(runs[r], runs'[r])
                    after == runs[r].remaining \ W
                    passed == FractionallyPassed(runs[r], W)
                IN  /\ W # {}
                    /\ \A w \in W : RLe(runs[r].threshold, runs[r].tallies[w])
                    /\ \A i \in 1..Len(passed) :
                          (passed[i].weight # Zero \/ TopOf(passed[i], after) # {})
                             => \E j \in 1..Len(runs'[r].profile) :
                                   runs'[r].profile[j] = passed[i]
                    /\ \A rk \in RankingsOf(passed) \cup RankingsOf(runs'[r].profile) :
                          WeightOf(runs'[r].profile, rk) = WeightOf(passed, rk)
                    /\ \A c \in after :
                          runs'[r].tallies[c] = Tally(c, passed, after)]_vars

C12_Witness ==
    \E r \in DOMAIN runs :
        /\ cfg.transfer = "fractional"
        /\ input = ThresholdScenario.profile
        /\ runs[r].threshold = RInt(1000)
        /\ runs[r].round = 1
        /\ runs[r].trace[1].tallies["A"] = RInt(1500)
        /\ runs[r].trace[1].winners = <<"A">>
        /\ \E j \in 1..Len(runs[r].profile) :
              runs[r].profile[j] = Ballot(Lin(<<"A", "B">>), RInt(500))
        /\ runs[r].tallies["B"] = RInt(500)
        /\ runs[r].tallies["C"] = RInt(498)

\* The rankings of the ballots of a run that are credited to candidate w,
\* and those of them with a next preference among the candidates of `after`.
CreditedRankings(run, w) ==
    {rk \in RankingsOf(run.profile) : TopOf(Ballot(rk, One), run.remaining) = {w}}

CreditableRankings(run, w, after) ==
    {rk \in CreditedRankings(run, w) : TopOf(Ballot(rk, One), after) # {}}

\* The weight of the ballots whose ranking is one of `rankings`.
WeightIn(ballots, rankings) ==
    SumOver(rankings, [rk \in rankings |-> WeightOf(ballots, rk)])

BallotsIn(ballots, rankings) ==
    {i \in 1..Len(ballots) : ballots[i].ranking \in rankings}

\* A round that elects under the random transfer and does not fail.
RandomlyTransferred(run, nxt) ==
    /\ cfg.transfer = "random"
    /\ CanElect(run)
    /\ nxt # run
    /\ nxt.status # "Error"

Surplus(run, w) == RSub(run.tallies[w], run.threshold)

Resolved(run) ==
    IF CanElect(run)
    THEN IF ElectChoice(run).error = "" THEN SeqToSet(ElectChoice(run).winners) ELSE {}
    ELSE IF CanEliminate(run) /\ EliminateChoice(run).error = ""
    THEN {EliminateChoice(run).loser}
    ELSE {}

\* Whether a ballot credited to one of the candidates has a non-integer weight.
FractionCredited(run, cands) ==
    \E i \in 1..Len(run.profile) :
        /\ TopOf(run.profile[i], run.remaining) # {}
        /\ TopOf(run.profile[i], run.remaining) \subseteq cands
        /\ run.profile[i].weight[2] # 1

\* C14: a random transfer invoked on credited ballots of which at least one
\* has a non-integer weight fails with NonIntegerWeightError and transfers
\* no ballot: the profile, the tallies and the candidates are as before.
C14_NonIntegerWeight ==
    [][\A r \in DOMAIN runs :
          (/\ cfg.transfer = "random"
           /\ runs'[r] # runs[r]
           /\ FractionCredited(runs[r], Resolved(runs[r])))
             => /\ runs'[r].status = "Error"
                /\ runs'[r].error = "NonIntegerWeightError"
                /\ runs'[r].profile = runs[r].profile
                /\ runs'[r].tallies = runs[r].tallies
                /\ runs'[r].remaining = runs[r].remaining
                /\ runs'[r].elected = runs[r].elected
                /\ runs'[r].eliminated = runs[r].eliminated
                /\ runs'[r].held = runs[r].held
                /\ runs'[r].exhausted = runs[r].exhausted]_vars

\* The transfer from an elected candidate one of whose two ballots has
\* weight 3/2 has failed.
C14_Witness ==
    \E r \in DOMAIN runs :
        /\ cfg.transfer = "random"
        /\ input = MixedScenario.profile
        /\ runs[r].status = "Error"
        /\ runs[r].error = "NonIntegerWeightError"
        /\ RLe(runs[r].threshold, runs[r].tallies["A"])
        /\ runs[r].profile = input
        /\ runs[r].elected = <<>>

\* The candidates with fewer than k candidates strictly ahead of them in
\* first-place votes.
TopBy(fpv, k) ==
    {c \in DOMAIN fpv :
        Cardinality({d \in DOMAIN fpv : RLt(fpv[c], fpv[d])}) < k}

\* C15: a plurality election takes exactly one round; when no tie is at
\* the cutoff it completes and elects exactly the m candidates with the
\* highest first-place weight totals, all in round 1, every other candidate
\* remaining and none eliminated; A>B>C x3, B>A>C x2, C>B>A x1 with m = 1
\* elects A in round 1.
C15_Plurality ==
    \A r \in DOMAIN runs :
        LET run == runs[r]
            fpv == Tallies(input, CandSet)
            top == TopBy(fpv, cfg.m)
        IN  /\ run.round <= 1
            /\ run.status = "Complete" <=> run.round = 1
            /\ run.status = "Complete" =>
                  /\ Len(run.trace) = 1
                  /\ Len(run.elected) = cfg.m
                  /\ \A i \in 1..Len(run.elected) : run.elected[i].round = 1
                  /\ Cands(run.elected) \subseteq top
                  /\ run.remaining = CandSet \ Cands(run.elected)
                  /\ run.eliminated = <<>>
                  /\ run.profile = input
            /\ (Cardinality(top) = cfg.m /\ run.status # "InProgress") =>
                  /\ run.status = "Complete"
                  /\ Cands(run.elected) = top
            /\ (input = PluralityScenario.profile /\ cfg.m = 1
                    /\ run.status # "InProgress") =>
                  /\ run.elected = <<[candidate |-> "A", round |-> 1]>>
                  /\ run.remaining = {"B", "C"}

C15_Witness ==
    \E r \in DOMAIN runs :
        /\ input = PluralityScenario.profile
        /\ cfg.m = 1
        /\ cfg.tiebreak = "none"
        /\ runs[r].status = "Complete"
        /\ runs[r].round = 1
        /\ runs[r].elected = <<[candidate |-> "A", round |-> 1]>>
        /\ runs[r].remaining = {"B", "C"}

\* The positions of the score vector that position j of a ranking occupies:
\* as many as it has candidates, after those of the positions before it.
Occupied(ranking, j) ==
    LET before == {c \in NameSet : \E i \in 1..(j - 1) : c \in ranking[i]}
    IN  (Cardinality(before) + 1)..(Cardinality(before) + Cardinality(ranking[j]))

RECURSIVE SumAt(_, _)
SumAt(vector, positions) ==
    IF positions = {} THEN 0
    ELSE LET p == CHOOSE x \in positions : TRUE
         IN  vector[p] + SumAt(vector, positions \ {p})

\* C16: in Borda scoring the candidates of a tied position each receive the
\* average of the score-vector entries of the positions the tie block
\* occupies; the ballot {A,B} > C with 3 candidates and the score vector
\* (3, 2, 1) gives A and B 5/2 each and C 1.
C16_BordaTieAverage ==
    opCall.op = "score" =>
        /\ \A j \in 1..Len(opCall.ranking) :
              \A c \in opCall.ranking[j] :
                 /\ opCall.result[c][2] > 0
                 /\ opCall.result[c][1] * Cardinality(opCall.ranking[j])
                       = SumAt(opCall.vector, Occupied(opCall.ranking, j))
                            * opCall.result[c][2]
        /\ (opCall.ranking = <<{"A", "B"}, {"C"}>> /\ opCall.vector = <<3, 2, 1>>)
              => opCall.result = [c \in NameSet |-> IF c = "C" THEN One ELSE <<5, 2>>]

C16_Witness ==
    /\ opCall.op = "score"
    /\ opCall.ranking = <<{"A", "B"}, {"C"}>>
    /\ opCall.vector = <<3, 2, 1>>
    /\ opCall.result["A"] = <<5, 2>>
    /\ opCall.result["B"] = <<5, 2>>
    /\ opCall.result["C"] = One

\* C17: condensation is idempotent: for every profile P,
\* condense(condense(P)) equals condense(P), the same ballots with the same
\* summed weights; and condense(P) has one ballot per ranking of P, of the
\* weight of P's ballots of that ranking.
C17_CondenseIdempotent ==
    opCall.op = "condense" =>
        /\ opCall.again = opCall.result
        /\ RankingsOf(opCall.result) = RankingsOf(opCall.arg)
        /\ Len(opCall.result) = Cardinality(RankingsOf(opCall.arg))
        /\ \A rk \in RankingsOf(opCall.arg) :
              WeightOf(opCall.result, rk) = WeightOf(opCall.arg, rk)

\* Three ballots, two of them alike, condensed to two.
C17_Witness ==
    /\ opCall.op = "condense"
    /\ Len(opCall.arg) = 3
    /\ Len(opCall.result) = 2
    /\ opCall.arg[1].ranking = opCall.arg[3].ranking
    /\ opCall.arg[1].ranking # opCall.arg[2].ranking
    /\ opCall.result[1].weight = RAdd(opCall.arg[1].weight, opCall.arg[3].weight)
    /\ opCall.again = opCall.result

RECURSIVE RunAlone(_, _)
RunAlone(seed, k) ==
    IF k <= 0 THEN NewRun(seed) ELSE StepAlone(RunAlone(seed, k - 1))

\* The rounds a run has taken, the failed one included.
RoundsTaken(run) == Len(run.trace) + (IF run.status = "Error" THEN 1 ELSE 0)

C20_ErrorKeepsTrail ==
    [][\A r \in DOMAIN runs :
          /\ (runs[r].status # "Error" /\ runs'[r].status = "Error")
                => /\ runs'[r].error \in {"TiebreakRequiredError", "NonIntegerWeightError"}
                   /\ runs'[r].trace = runs[r].trace
                   /\ runs'[r].round = runs[r].round
                   /\ Len(runs'[r].trace) = runs'[r].round
                   /\ \A i \in 1..Len(runs'[r].trace) : runs'[r].trace[i].round = i
                   /\ runs'[r].profile = runs[r].profile
                   /\ runs'[r].remaining = runs[r].remaining
                   /\ runs'[r].elected = runs[r].elected
                   /\ runs'[r].eliminated = runs[r].eliminated
          /\ runs[r].status = "Error" => runs'[r] = runs[r]
          /\ SubSeq(runs'[r].trace, 1, Len(runs[r].trace)) = runs[r].trace]_vars

\* An election that failed on a tie in its second round, the first on record.
C20_Witness ==
    \E r \in DOMAIN runs :
        /\ runs[r].status = "Error"
        /\ runs[r].error = "TiebreakRequiredError"
        /\ runs[r].round = 1
        /\ Len(runs[r].trace) = 1
        /\ runs[r].trace[1].kind = "elect"
        /\ Cardinality(runs[r].tied) = 2


\* Whether a list of candidates names a candidate twice.
HasDuplicate(cands) ==
    \E i, j \in 1..Len(cands) : i # j /\ cands[i] = cands[j]

\* Whether one of the ballots has a weight below zero.
HasNegative(ballots) ==
    \E i \in 1..Len(ballots) : ballots[i].weight[1] < 0

\* C21: the construction of a profile with a candidate named twice or a
\* ballot of negative weight fails with InvalidProfile and yields no
\* profile; no round of an election runs on such a profile, and no election
\* fails with InvalidProfile in a round.
C21_RejectedAtConstruction ==
    /\ (/\ opCall # NoOp
        /\ HasDuplicate(opCall.candidates) \/ HasNegative(opCall.ballots))
          => /\ opCall.error = "InvalidProfile"
             /\ candidates = NoProfile.candidates
             /\ input = NoProfile.ballots
             /\ DOMAIN runs = {}
    /\ \A r \in DOMAIN runs :
          /\ ~HasDuplicate(candidates)
          /\ ~HasNegative(input)
          /\ ~HasNegative(runs[r].profile)
          /\ runs[r].error # "InvalidProfile"
          /\ \A k \in 1..Len(runs[r].trace) : ~HasNegative(runs[r].trace[k].profile)

\* A profile of distinct candidates with a ballot of weight -1 was rejected.
C21_Witness ==
    /\ opCall # NoOp
    /\ ~HasDuplicate(opCall.candidates)
    /\ HasNegative(opCall.ballots)
    /\ opCall.error = "InvalidProfile"
    /\ input = <<>>
    /\ DOMAIN runs = {}


CountOf(record) ==
    [round |-> record.round, kind |-> record.kind, tallies |-> record.tallies,
     winners |-> record.winners, losers |-> record.losers,
     remaining |-> record.remaining, elected |-> record.elected,
     eliminated |-> record.eliminated, exhausted |-> record.exhausted,
     held |-> record.held]

\* C23: the order of the ballots of a profile does not affect the count: a
\* deterministic election (no random tie-break, no random transfer) on the
\* same ballots in another order has in every round the same tallies, the
\* same elected, eliminated and remaining candidates, and in the end the same
\* winners, or the same error on the same tied candidates.
C23_OrderIrrelevant ==
    LET one == runs[1]
        other == runs[2]
    IN  /\ other.threshold = one.threshold
        /\ other.tallies = one.tallies
        /\ other.round = one.round
        /\ Len(other.trace) = Len(one.trace)
        /\ \A k \in 1..Len(one.trace) : CountOf(other.trace[k]) = CountOf(one.trace[k])
        /\ other.remaining = one.remaining
        /\ other.elected = one.elected
        /\ other.eliminated = one.eliminated
        /\ other.exhausted = one.exhausted
        /\ other.status = one.status
        /\ other.short = one.short
        /\ other.error = one.error
        /\ other.tied = one.tied

\* Two elections on two different ballots credited to the same candidate, in
\* the two orders, complete after a transfer and an elimination, their
\* ballots in different orders after the first round.
C23_Witness ==
    /\ DOMAIN runs = {1, 2}
    /\ Len(input) = 2
    /\ input[1].weight # input[2].weight
    /\ TopOf(input[1], CandSet) = TopOf(input[2], CandSet)
    /\ runs[1].status = "Complete"
    /\ runs[2].status = "Complete"
    /\ runs[1].round >= 2
    /\ runs[1].eliminated # <<>>
    /\ runs[1].elected = runs[2].elected
    /\ runs[1].trace[1].profile # runs[2].trace[1].profile


\* C24: a round eliminates a candidate only if it elects none, none of the
\* remaining candidates having reached the threshold, and seats are left
\* unfilled; no round both elects and eliminates; and every round, the last
\* one too, elects or eliminates at least one candidate.
C24_ElectOrEliminate ==
    [][\A r \in DOMAIN runs :
          LET run == runs[r]
              nxt == runs'[r]
              elects == nxt.elected # run.elected
              eliminates == nxt.eliminated # run.eliminated
          IN  /\ eliminates
                    => /\ ~elects
                       /\ \A c \in run.remaining : RLt(run.tallies[c], run.threshold)
                       /\ Len(run.elected) < cfg.m
                       /\ nxt.trace[Len(nxt.trace)].winners = <<>>
                       /\ Len(nxt.trace[Len(nxt.trace)].losers) = 1
              /\ elects => nxt.trace[Len(nxt.trace)].losers = <<>>
              /\ nxt.round = run.round + 1 => (elects \/ eliminates)
              /\ (nxt # run /\ nxt.status # "Error") => nxt.round = run.round + 1]_vars

\* A round that elected, then one that eliminated while a seat was still to
\* be filled, then a last one.
C24_Witness ==
    \E r \in DOMAIN runs :
        /\ Len(runs[r].trace) = 3
        /\ runs[r].trace[1].kind = "elect"
        /\ runs[r].trace[2].kind = "eliminate"
        /\ runs[r].trace[2].winners = <<>>
        /\ Len(runs[r].trace[2].elected) < cfg.m
        /\ runs[r].status = "Complete"


\* The candidates a step of a run eliminates.
NewlyEliminated(run, nxt) == Cands(nxt.eliminated) \ Cands(run.eliminated)

\* C25: whenever a round eliminates a candidate, that candidate's tally in
\* the round is at most the tally of every candidate that stays in
\* remaining: no candidate with a tally strictly above that of another
\* remaining candidate is eliminated, under any tie-break rule.
C25_LowestEliminated ==
    [][\A r \in DOMAIN runs :
          \A l \in NewlyEliminated(runs[r], runs'[r]) :
             /\ l \in runs[r].remaining
             /\ \A c \in runs'[r].remaining : RLe(runs[r].tallies[l], runs[r].tallies[c])
             /\ ~\E d \in runs[r].remaining : RLt(runs[r].tallies[d], runs[r].tallies[l])
             /\ runs'[r].trace[Len(runs'[r].trace)].tallies = runs[r].tallies]_vars

\* Of two candidates tied for the lowest tally the random tie-break has
\* eliminated one, a third candidate of a higher tally staying.
C25_Witness ==
    \E r \in DOMAIN runs :
        /\ cfg.tiebreak = "random"
        /\ Len(runs[r].trace) >= 1
        /\ runs[r].trace[1].kind = "eliminate"
        /\ LET rec == runs[r].trace[1]
               l == rec.losers[1]
           IN  /\ \E c \in rec.remaining : rec.tallies[c] = rec.tallies[l]
               /\ \E c \in rec.remaining : RLt(rec.tallies[l], rec.tallies[c])


\* The growth of the tallies of the candidates of `among` over a step.
Growth(run, nxt, among) ==
    RSub(SumOver(among, nxt.tallies), SumOver(among, [c \in among |-> run.tallies[c]]))

\* Whether every ballot credited to candidate l that ranks a candidate of
\* `after` next is in the count after the step at the weight it had.
PassedInFull(run, nxt, l, after) ==
    \A rk \in CreditableRankings(run, l, after) :
        WeightOf(nxt.profile, rk) = WeightOf(run.profile, rk)

DeadEndWeight(run, c, after) ==
    WeightIn(run.profile, CreditedRankings(run, c) \ CreditableRankings(run, c, after))

\* The share of its weight at which a transfer from candidate c carries a
\* ballot: under fractional transfer of a surplus (T - Q) / T, else all.
Carried(run, c, elects) ==
    IF cfg.transfer = "fractional" /\ elects
    THEN RDiv(RSub(run.tallies[c], run.threshold), run.tallies[c])
    ELSE One

C29_AtMostSeats ==
    \A r \in DOMAIN runs :
        /\ Len(runs[r].elected) <= cfg.m
        /\ Cardinality(Cands(runs[r].elected)) = Len(runs[r].elected)
        /\ \A k \in 1..Len(runs[r].trace) :
              /\ Len(runs[r].trace[k].elected) <= cfg.m
              /\ Len(runs[r].trace[k].winners) <= cfg.m
              /\ runs[r].trace[k].kind = "elect" =>
                    Cardinality({c \in runs[r].trace[k].before :
                                    RLe(runs[r].threshold, runs[r].trace[k].tallies[c])})
                       <= cfg.m - (Len(runs[r].trace[k].elected)
                                     - Len(runs[r].trace[k].winners))
        /\ runs[r].status = "Complete" => Cardinality(Cands(runs[r].elected)) <= cfg.m

\* An election for two seats in the simultaneous mode, complete, in which
\* two candidates crossed the quota together in round 1.
C29_Witness ==
    \E r \in DOMAIN runs :
        /\ cfg.simultaneous
        /\ cfg.m = 2
        /\ runs[r].status = "Complete"
        /\ Len(runs[r].elected) = 2
        /\ Len(runs[r].trace) = 1
        /\ Len(runs[r].trace[1].winners) = 2
        /\ runs[r].trace[1].kind = "elect"


\* Whether the sequence `later` is `earlier` with entries added at its end,
\* each added entry bearing the given round number.
Extends(later, earlier, round) ==
    /\ Len(earlier) <= Len(later)
    /\ SubSeq(later, 1, Len(earlier)) = earlier
    /\ \A i \in (Len(earlier) + 1)..Len(later) : later[i].round = round

\* C30: the status of a candidate only moves forward: a candidate recorded
\* as elected or as eliminated in round r is recorded so, with the round
\* number r and at the same position of the sequence, in every later round;
\* it never returns to remaining and never changes from elected to
\* eliminated or back; the remaining candidates of a round are among those
\* of the round before.
C30_StatusForward ==
    [][\A r \in DOMAIN runs :
          LET run == runs[r]
              nxt == runs'[r]
          IN  /\ Extends(nxt.elected, run.elected, nxt.round)
              /\ Extends(nxt.eliminated, run.eliminated, nxt.round)
              /\ nxt.remaining \subseteq run.remaining
              /\ nxt.remaining \cap (Cands(run.elected) \cup Cands(run.eliminated)) = {}
              /\ Cands(nxt.elected) \cap Cands(run.eliminated) = {}
              /\ Cands(nxt.eliminated) \cap Cands(run.elected) = {}
              /\ \A k \in 1..Len(nxt.trace) :
                    LET rec == nxt.trace[k]
                    IN  /\ Len(rec.elected) <= Len(nxt.elected)
                        /\ Len(rec.eliminated) <= Len(nxt.eliminated)
                        /\ \A i \in 1..Len(rec.elected) :
                              /\ rec.elected[i] = nxt.elected[i]
                              /\ rec.elected[i].round <= k
                        /\ \A i \in 1..Len(rec.eliminated) :
                              /\ rec.eliminated[i] = nxt.eliminated[i]
                              /\ rec.eliminated[i].round <= k
                        /\ nxt.remaining \subseteq rec.remaining
                        /\ k > 1 => rec.remaining \subseteq nxt.trace[k - 1].remaining
                        /\ \A c \in SeqToSet(rec.winners) :
                              \E i \in 1..Len(nxt.elected) :
                                 nxt.elected[i] = [candidate |-> c, round |-> k]
                        /\ \A c \in SeqToSet(rec.losers) :
                              \E i \in 1..Len(nxt.eliminated) :
                                 nxt.eliminated[i] = [candidate |-> c, round |-> k]]_vars

\* A candidate elected in round 1, one eliminated in round 2 and one elected
\* in round 3, each on record with its round and in that order.
C30_Witness ==
    \E r \in DOMAIN runs :
        /\ runs[r].round = 3
        /\ Len(runs[r].elected) = 2
        /\ Len(runs[r].eliminated) = 1
        /\ runs[r].elected[1].round = 1
        /\ runs[r].eliminated[1].round = 2
        /\ runs[r].elected[2].round = 3
        /\ runs[r].trace[1].elected = <<runs[r].elected[1]>>
        /\ runs[r].trace[2].eliminated = runs[r].eliminated
        /\ runs[r].remaining = {}

=============================================================================
